---------------------------- MODULE Spec2Model ----------------------------
(***************************************************************************)
(* Model of the FireBreath native-message host main loop                   *)
(* (src/NativeMessageHost/MainLoop.h, MainLoop.cpp): the envelope parser,  *)
(* the chunk reassembler (msgMap), the outbound chunker (sendCommand), the *)
(* two queues with the dispatch loop (MainLoop::run) and the dispatcher    *)
(* (MainLoop::processBrowserMessage).                                      *)
(*                                                                         *)
(* Conventions.                                                            *)
(*  - A std::string is a sequence of tokens; the payload alphabet is       *)
(*    Alphabet, and a fixed text such as "Invalid json" is the one-token   *)
(*    sequence <<"Invalid json">>.                                         *)
(*  - A Json::Value is a tagged record: [t |-> "int", i |-> n],            *)
(*    [t |-> "str", s |-> str], or [t |-> "obj", o |-> r] with r a record  *)
(*    (a function from member names to Json values).                       *)
(*  - A text on the wire is [kind |-> "json", root |-> v] (the text that   *)
(*    the JSON library writes for v and parses back to v) or               *)
(*    [kind |-> "garbage"] (a text that the JSON library fails to parse).  *)
(*  - An unsigned 32-bit value that wrapped below zero is kept as the      *)
(*    congruent negative integer (0 - 1 stands for 0xFFFFFFFF).            *)
(*  - Undefined behaviour (a read of an uninitialized member, an access    *)
(*    outside a vector, pop_front on an empty deque) is a nondeterministic *)
(*    choice over the outcomes listed at the place it happens.             *)
(***************************************************************************)
EXTENDS Integers, Sequences, FiniteSets, TLC

VARIABLES
    msgMap,         \* std::map<uint32_t, messageInfo> msgMap       (MainLoop.cpp:31)
    m_messagesIn,   \* std::deque<messageInfo> m_messagesIn         (MainLoop.h:105)
    m_AsyncCalls,   \* std::deque<AsyncCall> m_AsyncCalls           (MainLoop.h:106)
    m_needsToExit,  \* bool m_needsToExit                           (MainLoop.h:110)
    m_pluginLoader, \* std::unique_ptr<PluginLoader> m_pluginLoader (MainLoop.h:111)
    m_mutex,        \* owner of std::mutex m_mutex: "free" or "loop"(MainLoop.h:108)
    m_cond,         \* m_cond: a notify_all reached the waiting consumer (MainLoop.h:109)
    pc,             \* position of the consumer thread inside MainLoop::run
    curCall,        \* run's local `AsyncCall c`
    message,        \* run's local `messageInfo message`
    cout,           \* what was written to std::cout, in order
    bridge,         \* calls made into the plugin loader / plugin, in order
    invoked,        \* async calls invoked by the loop, in order
    crashed,        \* the process hit undefined behaviour and stopped
    inHist,         \* history: one record per messageIn call
    schedHist,      \* history: async calls given to scheduleCall, in order
    dispHist,       \* history: messages given to processBrowserMessage, in order
    iter,           \* history: loop iterations begun
    lastIter,       \* history: what the current loop iteration removed and ran
    sent,           \* history: the sendCommand call under test (round trip)
    writing,        \* per thread: what its writeMessage calls have still to put on std::cout
    notifying       \* producers that have enqueued and unlocked, before their m_cond.notify_all()

vars == << msgMap, m_messagesIn, m_AsyncCalls, m_needsToExit, m_pluginLoader,
           m_mutex, m_cond, pc, curCall, message, cout, bridge, invoked, crashed,
           inHist, schedHist, dispHist, iter, lastIter, sent, writing,
           notifying >>

----------------------------------------------------------------------------
(* Bounds of the model.                                                    *)

\* Chunk ceiling used by the model in place of 768 * 1024 bytes.
MaxChunk == 2
\* Largest message id / chunk count / sequence number the peer sends.
MaxId == 2
\* Insertions into std::cout in one behaviour of the concurrent writers.
MaxStream == 6
\* Number of producer calls in one behaviour of the wait taken step by step.
MaxWakeOps == 3
\* Number of messageIn calls in one behaviour of the reader alone.
MaxIn == 3
\* Number of messageIn calls in one behaviour of the whole host.
MaxLoopIn == 2
\* Number of scheduleCall calls in one behaviour.
MaxCalls == 2
\* Number of loop iterations in one behaviour.
MaxIter == 2
\* Number of messages handed to the dispatcher in the dispatcher harness.
MaxDispatch == 3

Alphabet == {"a", "b"}

----------------------------------------------------------------------------
(* Strings.                                                                *)

Strings(n) == UNION { [1..k -> Alphabet] : k \in 0..n }

Min(a, b) == IF a < b THEN a ELSE b

\* (int)x for an unsigned 32-bit x: values above INT_MAX wrap negative.
CastInt(x) == IF x > 2147483647 THEN (x - 2147483647) - 2147483647 - 2 ELSE x

----------------------------------------------------------------------------
(* messageInfo (MainLoop.h:36-68).                                         *)

MessageType == {"UNKNOWN", "CREATE", "DESTROY", "COMMAND", "RESPONSE", "ERROR"}

\* A messageInfo.  indet = TRUE: colonyId, msgId, c and curC were never
\* initialized (their stored 0 is a placeholder, not a value).  type "UNINIT":
\* the type member was never initialized.
mkInfo(colonyId, msgId, c, curC, msgs, type, indet) ==
    [colonyId |-> colonyId, msgId |-> msgId, c |-> c, curC |-> curC,
     msgs |-> msgs, type |-> type, indet |-> indet]

\* messageInfo(size_t c, uint32_t msgId): msgs(c) is c empty strings.
messageInfo_c_msgId(c, msgId) ==
    mkInfo(0, msgId, c, 0, [k \in 1..c |-> << >>], "UNINIT", FALSE)

\* messageInfo(MessageType type, std::string msg): only type and msgs are set.
messageInfo_type_msg(type, msg) ==
    mkInfo(0, 0, 0, 0, << msg >>, type, TRUE)

\* messageInfo(): nothing is set; msgs is empty.
messageInfo_default == mkInfo(0, 0, 0, 0, << >>, "UNINIT", TRUE)

\* isComplete(): curC >= c.  The result set holds the values the call can
\* return: both when c and curC are indeterminate.
isComplete(m) == IF m.indet THEN {TRUE, FALSE} ELSE {m.curC >= m.c}

RECURSIVE Concat(_)
Concat(ss) == IF ss = << >> THEN << >> ELSE Head(ss) \o Concat(Tail(ss))

\* getString(): the fragments concatenated in slot order.
getString(m) == Concat(m.msgs)

----------------------------------------------------------------------------
(* Json::Value and the wire text.                                          *)

JInt(n) == [t |-> "int", i |-> n]
JStr(s) == [t |-> "str", s |-> s]
JObj(r) == [t |-> "obj", o |-> r]
EmptyRec == [x \in {} |-> 0]

isObject(v) == v.t = "obj"
isMember(v, f) == f \in DOMAIN v.o
isIntegral(v) == v.t = "int"
asUInt(v) == v.i
asString(v) == v.s

\* `out << root`: the text the JSON library writes for root.
Serialize(root) == [kind |-> "json", root |-> root]
\* Json::Reader::parse: fails on a text that is not JSON.
ParseOk(command) == command.kind = "json"
ParseRoot(command) == command.root

----------------------------------------------------------------------------
(* Envelope parser and chunk reassembler (MainLoop.cpp:31-130).            *)
(* A call returns [thrown, what, info, map, oob]: whether it threw and the *)
(* exception text, the messageInfo returned, msgMap after the call, and    *)
(* whether it wrote outside the bounds of info.msgs.                       *)

Throw(text, map) ==
    [thrown |-> TRUE, what |-> text, info |-> messageInfo_default,
     map |-> map, oob |-> FALSE]
Return(info, map, oob) ==
    [thrown |-> FALSE, what |-> << >>, info |-> info, map |-> map, oob |-> oob]

\* getMessageInfo(uint32_t msgId, size_t c): the entry under key msgId,
\* created with c slots when absent, else checked against c.
getMessageInfo(map, msgId, c) ==
    IF msgId \notin DOMAIN map
    THEN Return(messageInfo_c_msgId(c, msgId),
                (msgId :> messageInfo_c_msgId(c, msgId)) @@ map, FALSE)
    ELSE IF map[msgId].c # c
         THEN Throw(<<"Invalid sequence size; sequence size already set">>, map)
         ELSE Return(map[msgId], map, FALSE)

\* parseCommandMessage: only "create" with a mimetype is accepted.
parseCommandMessage(map, root) ==
    LET cmd == asString(root.o["cmd"]) IN
    IF cmd = <<"create">>
    THEN IF ~isMember(root, "mimetype")
         THEN Throw(<<"Missing Mimetype">>, map)
         ELSE Return([messageInfo_default EXCEPT
                        !.type = "CREATE",
                        !.msgs = Append(@, asString(root.o["mimetype"]))],
                     map, FALSE)
    ELSE Throw(<<"Unknown command">>, map)

\* parseWyrmholeMessage.  The call at line 103 passes (c, cmdId) to
\* getMessageInfo(msgId, c), and `info` is a copy of the table entry.
parseWyrmholeMessage(map, root) ==
    IF \/ ~isMember(root, "c")
       \/ ~isIntegral(root.o["c"])
       \/ ~isMember(root, "cmdId")
       \/ ~isIntegral(root.o["cmdId"])
    THEN Throw(<<"Invalid message">>, map)
    ELSE
    LET colonyId == IF isMember(root, "colonyId")
                    THEN asUInt(root.o["colonyId"]) ELSE 0
        cmdId == asUInt(root.o["cmdId"])
        c == asUInt(root.o["c"])
    IN  IF c > 1 /\ (~isMember(root, "n") \/ ~isIntegral(root.o["n"]))
        THEN Throw(<<"Missing sequence id in multi-part message">>, map)
        ELSE
        LET n == IF c > 1 THEN asUInt(root.o["n"]) - 1 ELSE c - 1
            type == IF isMember(root, "type")
                       /\ asString(root.o["type"]) = <<"resp">>
                    THEN "RESPONSE" ELSE "COMMAND"
            got == getMessageInfo(map, c, cmdId)
        IN  IF got.thrown THEN got
            ELSE
            LET inb == n >= 0 /\ n < Len(got.info.msgs)
                info == [got.info EXCEPT
                           !.colonyId = colonyId,
                           !.msgs = IF inb
                                    THEN [@ EXCEPT ![n + 1] = asString(root.o["msg"])]
                                    ELSE @,
                           !.curC = @ + 1,
                           !.type = type]
            IN  Return(info, got.map, ~inb)

\* parseIncomingMessage.
parseIncomingMessage(map, command) ==
    IF ~ParseOk(command) THEN Throw(<<"Invalid json">>, map)
    ELSE IF ~isObject(ParseRoot(command)) THEN Throw(<<"Invalid message">>, map)
    ELSE IF isMember(ParseRoot(command), "cmd")
         THEN parseCommandMessage(map, ParseRoot(command))
    ELSE IF isMember(ParseRoot(command), "msg")
         THEN parseWyrmholeMessage(map, ParseRoot(command))
    ELSE Throw(<<"Unknown message">>, map)

\* e.what() in `catch (std::exception e)`: the exception is caught by value
\* as the base class, so what() is the base class's text where the library
\* does not copy the message into the slice, the thrown text where it does.
what(text) == {<<"std::exception">>, text}

----------------------------------------------------------------------------
(* Outbound chunker and framer (MainLoop.cpp:24-28, 149-177, 240-248;      *)
(* MainLoop.h:93-100).                                                     *)

\* const int maxCommandSize = 768 * 1024, scaled to the model's ceiling.
maxCommandSize == MaxChunk

\* countChunks with the quotient truncated instead of rounded up.
countChunksTruncated(size) == size \div maxCommandSize

\* countChunks(double size): ceil(size / maxCommandSize).
countChunks(size) ==
    IF size % maxCommandSize = 0
    THEN size \div maxCommandSize
    ELSE size \div maxCommandSize + 1

\* The document sendCommand serializes in iteration i (zero-based) of its loop.
sendCommandRoot(colonyId, cmdId, strCommand, strCommandLen, type, i) ==
    LET count == Min(CastInt(maxCommandSize),
                     CastInt(strCommandLen - maxCommandSize * i))
    IN  JObj([c |-> JInt(countChunks(strCommandLen)),
              type |-> JStr(type),
              colonyId |-> JInt(colonyId),
              cmdId |-> JInt(cmdId),
              n |-> JInt(i + 1),
              msg |-> JStr(SubSeq(strCommand, maxCommandSize * i + 1,
                                  maxCommandSize * i + count))])

\* sendCommand: the texts handed to writeMessage, in order.
sendCommand(colonyId, cmdId, strCommand, strCommandLen, type) ==
    [k \in 1..countChunks(strCommandLen) |->
        Serialize(sendCommandRoot(colonyId, cmdId, strCommand, strCommandLen,
                                  type, k - 1))]

\* doCommand / doCommandCallback.
doCommand(colonyId, cmdId, strCommand, strCommandLen) ==
    sendCommand(colonyId, cmdId, strCommand, strCommandLen, <<"cmd">>)
doCommandCallback(colonyId, cmdId, strResp, strRespLen) ==
    sendCommand(colonyId, cmdId, strResp, strRespLen, <<"resp">>)

\* writeMessage(output): the four bytes of output.size(), little-endian, then
\* output.  The stream is kept as segments: the prefix of a text, the text.
writeMessage(output) ==
    << [seg |-> "size", of |-> output], [seg |-> "text", of |-> output] >>

RECURSIVE writeAll(_)
writeAll(texts) ==
    IF texts = << >> THEN << >>
    ELSE writeMessage(Head(texts)) \o writeAll(Tail(texts))

\* writeObj(outMap): a record of strings, serialized and written.
writeObj(outMap) ==
    writeMessage(Serialize(JObj([k \in DOMAIN outMap |-> JStr(outMap[k])])))

\* The texts on the stream, in order (what a reader of the stream gets).
RECURSIVE Frames(_)
Frames(stream) ==
    IF stream = << >> THEN << >>
    ELSE IF Head(stream).seg = "text"
         THEN << Head(stream).of >> \o Frames(Tail(stream))
         ELSE Frames(Tail(stream))

----------------------------------------------------------------------------
(* Producers: MainLoop::messageIn (MainLoop.cpp:132-147) and               *)
(* MainLoop::scheduleCall (MainLoop.h:86-91).                              *)

\* m_cond.notify_all(): reaches the consumer only if it is in the wait.
notify_all == IF pc = "waiting" THEN TRUE ELSE m_cond

\* messageIn(msg).  The write outside info.msgs (oob) either stops the
\* process or lands outside the vector and leaves it as it was.
messageIn(command) ==
    LET r == parseIncomingMessage(msgMap, command) IN
    \E w \in (IF r.thrown THEN what(r.what) ELSE {<< >>}) :
    \E ub \in (IF r.oob THEN {"crash", "skip"} ELSE {"none"}) :
    LET processedMsg == IF r.thrown
                        THEN messageInfo_type_msg("ERROR", w)
                        ELSE r.info
    IN  \E complete \in (IF ub = "crash" THEN {FALSE} ELSE isComplete(processedMsg)) :
        /\ ~crashed
        /\ complete => m_mutex = "free"
        /\ msgMap' = r.map
        /\ crashed' = (ub = "crash")
        /\ m_messagesIn' = IF complete THEN Append(m_messagesIn, processedMsg)
                                       ELSE m_messagesIn
        /\ m_cond' = IF complete THEN notify_all ELSE m_cond
        /\ inHist' = Append(inHist, [doc |-> command,
                                     thrown |-> r.thrown,
                                     info |-> processedMsg,
                                     queued |-> complete,
                                     ub |-> ub])
        /\ UNCHANGED << m_AsyncCalls, m_needsToExit, m_pluginLoader, m_mutex, pc,
                        curCall, message, cout, bridge, invoked, schedHist,
                        dispHist, iter, lastIter, sent, writing, notifying >>

\* scheduleCall(fn, pData); the call is named by its number.
scheduleCall(call) ==
    /\ ~crashed
    /\ m_mutex = "free"
    /\ m_AsyncCalls' = Append(m_AsyncCalls, call)
    /\ m_cond' = notify_all
    /\ schedHist' = Append(schedHist, [call |-> call, at |-> iter,
                                       pos |-> Len(m_AsyncCalls) + 1])
    /\ UNCHANGED << msgMap, m_messagesIn, m_needsToExit, m_pluginLoader, m_mutex,
                    pc, curCall, message, cout, bridge, invoked, crashed, inHist,
                    dispHist, iter, lastIter, sent, writing, notifying >>

\* The exit request (made outside MainLoop.cpp): sets the flag and wakes
\* the consumer.
requestExit ==
    /\ ~crashed
    /\ ~m_needsToExit
    /\ m_mutex = "free"
    /\ m_needsToExit' = TRUE
    /\ m_cond' = notify_all
    /\ UNCHANGED << msgMap, m_messagesIn, m_AsyncCalls, m_pluginLoader, m_mutex,
                    pc, curCall, message, cout, bridge, invoked, crashed, inHist,
                    schedHist, dispHist, iter, lastIter, sent, writing,
                    notifying >>

----------------------------------------------------------------------------
(* Dispatcher: MainLoop::processBrowserMessage (MainLoop.cpp:250-273).     *)

NoPlugin == [loaded |-> FALSE, mimetype |-> << >>, initialized |-> FALSE]

\* PluginLoader::getPluginName() of the module loaded for a mimetype.
getPluginName(mimetype) == <<"plugin of">> \o mimetype

\* Outcomes of PluginLoader::LoadPlugin followed by PluginLoader::Init.
LoadOutcomes == {"ok", "loadThrows", "initThrows"}

\* message.msgs[0]: outside the vector when msgs is empty.
msgs0(msg) == IF Len(msg.msgs) > 0 THEN msg.msgs[1] ELSE << >>

\* The type tests without the first one, the test for ERROR.
dispatchBranchNoErrorTest(msg) ==
    IF msg.type = "COMMAND" THEN "load"
    ELSE IF msg.type = "RESPONSE" THEN "callback"
    ELSE "unknown"

\* The type tests of processBrowserMessage, in the order of the code.
dispatchBranch(msg) ==
    IF msg.type = "ERROR" THEN "error"
    ELSE IF msg.type = "COMMAND" THEN "load"
    ELSE IF msg.type = "COMMAND" THEN "call"
    ELSE IF msg.type = "RESPONSE" THEN "callback"
    ELSE "unknown"

\* processBrowserMessage(message): its effect on std::cout, m_pluginLoader,
\* the plugin loader and the process.  m_hFuncs.call is doCommand and
\* m_hFuncs.cmdCallback is doCommandCallback (MainLoop.cpp:195-196).
processBrowserMessage(msg) ==
    LET branch == dispatchBranch(msg) IN
    IF branch = "error"
    THEN /\ cout' = cout \o writeObj([status |-> <<"error">>, message |-> msgs0(msg)])
         /\ UNCHANGED << m_pluginLoader, bridge, crashed >>
    ELSE IF branch = "load"
    THEN \E ub \in (IF Len(msg.msgs) = 0 THEN {"crash", "skip"} ELSE {"none"}) :
         \E outcome \in LoadOutcomes :
         \E w \in what(<<"plugin error">>) :
         IF ub = "crash"
         THEN crashed' = TRUE /\ UNCHANGED << cout, m_pluginLoader, bridge >>
         ELSE
         /\ crashed' = crashed
         /\ bridge' = bridge \o
               (IF outcome = "loadThrows"
                THEN << [fn |-> "LoadPlugin", arg |-> msgs0(msg), ok |-> FALSE] >>
                ELSE IF outcome = "initThrows"
                THEN << [fn |-> "LoadPlugin", arg |-> msgs0(msg), ok |-> TRUE],
                        [fn |-> "Init", arg |-> msgs0(msg), ok |-> FALSE] >>
                ELSE << [fn |-> "LoadPlugin", arg |-> msgs0(msg), ok |-> TRUE],
                        [fn |-> "Init", arg |-> msgs0(msg), ok |-> TRUE],
                        [fn |-> "getPluginName", arg |-> msgs0(msg), ok |-> TRUE] >>)
         /\ m_pluginLoader' =
               IF outcome = "loadThrows" THEN m_pluginLoader
               ELSE [loaded |-> TRUE, mimetype |-> msgs0(msg),
                     initialized |-> (outcome = "ok")]
         /\ cout' = cout \o
               (IF outcome = "ok"
                THEN writeObj([status |-> <<"success">>,
                               plugin |-> getPluginName(msgs0(msg))])
                ELSE writeObj([status |-> <<"error">>, message |-> w]))
    ELSE IF branch = "call"
    THEN /\ cout' = cout \o writeAll(doCommand(msg.colonyId, msg.msgId,
                                               getString(msg), Len(getString(msg))))
         /\ UNCHANGED << m_pluginLoader, bridge, crashed >>
    ELSE IF branch = "callback"
    THEN /\ cout' = cout \o writeAll(doCommandCallback(msg.colonyId, msg.msgId,
                                               getString(msg), Len(getString(msg))))
         /\ UNCHANGED << m_pluginLoader, bridge, crashed >>
    ELSE /\ cout' = cout \o writeObj([status |-> <<"error">>,
                                      message |-> <<"Unknown message">>])
         /\ UNCHANGED << m_pluginLoader, bridge, crashed >>

----------------------------------------------------------------------------
(* The dispatch loop: MainLoop::run (MainLoop.cpp:184-238).                *)

NoIter == [asyncPopped |-> 0, asyncInvoked |-> 0, msgPopped |-> 0,
           msgDispatched |-> 0, hadMsg |-> FALSE, undefined |-> FALSE]

\* A predicate that leaves out the async queue.
workExistsNoCalls == m_needsToExit \/ Len(m_messagesIn) > 0

\* The lambda workExists of run.
workExists == m_needsToExit \/ Len(m_messagesIn) > 0 \/ Len(m_AsyncCalls) > 0

\* Lines 184-202: set up the function tables and take the lock.
runStart ==
    /\ ~crashed
    /\ pc = "start"
    /\ m_mutex = "free"
    /\ m_mutex' = "loop"
    /\ pc' = "top"
    /\ UNCHANGED << msgMap, m_messagesIn, m_AsyncCalls, m_needsToExit,
                    m_pluginLoader, m_cond, curCall, message, cout, bridge,
                    invoked, crashed, inHist, schedHist, dispHist, iter,
                    lastIter, sent, writing, notifying >>

\* Lines 203-212 when the wait is not entered or not needed: the loop test,
\* then either return, or block in m_cond.wait (the lock is released), or go
\* on to the work of this iteration.
runTop ==
    /\ ~crashed
    /\ pc = "top"
    /\ m_needsToExit \/ iter < MaxIter
    /\ IF m_needsToExit
       THEN /\ pc' = "done"
            /\ m_mutex' = "free"
            /\ UNCHANGED << m_cond, iter, lastIter >>
       ELSE IF ~workExists
       THEN /\ pc' = "waiting"
            /\ m_mutex' = "free"
            /\ m_cond' = FALSE
            /\ iter' = iter + 1
            /\ lastIter' = NoIter
       ELSE /\ pc' = "async"
            /\ iter' = iter + 1
            /\ lastIter' = NoIter
            /\ UNCHANGED << m_mutex, m_cond >>
    /\ UNCHANGED << msgMap, m_messagesIn, m_AsyncCalls, m_needsToExit,
                    m_pluginLoader, curCall, message, cout, bridge, invoked,
                    crashed, inHist, schedHist, dispHist, sent, writing,
                    notifying >>

\* A consumer that goes on to the work after the wait without the test of
\* lines 209-212.
runWakeNoExitTest ==
    /\ ~crashed
    /\ pc = "waiting"
    /\ m_cond
    /\ m_mutex = "free"
    /\ m_cond' = FALSE
    /\ IF ~workExists
       THEN UNCHANGED << pc, m_mutex >>
       ELSE pc' = "async" /\ m_mutex' = "loop"
    /\ UNCHANGED << msgMap, m_messagesIn, m_AsyncCalls, m_needsToExit,
                    m_pluginLoader, curCall, message, cout, bridge, invoked,
                    crashed, inHist, schedHist, dispHist, iter, lastIter, sent,
                    writing, notifying >>

\* Lines 206-212: the consumer is notified, takes the lock again and tests
\* the predicate; it waits again, returns on exit, or goes on.
runWake ==
    /\ ~crashed
    /\ pc = "waiting"
    /\ m_cond
    /\ m_mutex = "free"
    /\ m_cond' = FALSE
    /\ IF ~workExists
       THEN UNCHANGED << pc, m_mutex >>
       ELSE IF m_needsToExit
       THEN pc' = "done" /\ UNCHANGED m_mutex
       ELSE pc' = "async" /\ m_mutex' = "loop"
    /\ UNCHANGED << msgMap, m_messagesIn, m_AsyncCalls, m_needsToExit,
                    m_pluginLoader, curCall, message, cout, bridge, invoked,
                    crashed, inHist, schedHist, dispHist, iter, lastIter, sent,
                    writing, notifying >>

\* A loop that keeps the lock where the code releases it.
unlockKeepsLock(mutex) == mutex

\* Lines 222 and 230: _l.unlock(), on the lock the loop holds.
unlock(mutex) == "free"

\* Lines 215-222: take one async call off its queue and release the lock.
runAsync ==
    /\ ~crashed
    /\ pc = "async"
    /\ IF Len(m_AsyncCalls) > 0
       THEN /\ curCall' = Head(m_AsyncCalls)
            /\ m_AsyncCalls' = Tail(m_AsyncCalls)
            /\ m_mutex' = unlock(m_mutex)
            /\ pc' = "inCall"
            /\ lastIter' = [lastIter EXCEPT !.asyncPopped = @ + 1]
       ELSE /\ pc' = "msg"
            /\ UNCHANGED << curCall, m_AsyncCalls, m_mutex, lastIter >>
    /\ UNCHANGED << msgMap, m_messagesIn, m_needsToExit, m_pluginLoader, m_cond,
                    message, cout, bridge, invoked, crashed, inHist, schedHist,
                    dispHist, iter, sent, writing, notifying >>

\* Line 223: (*(c.fn))(c.pData), with the lock released.
runCall ==
    /\ ~crashed
    /\ pc = "inCall"
    /\ invoked' = Append(invoked, curCall)
    /\ lastIter' = [lastIter EXCEPT !.asyncInvoked = @ + 1]
    /\ pc' = "relockCall"
    /\ UNCHANGED << msgMap, m_messagesIn, m_AsyncCalls, m_needsToExit,
                    m_pluginLoader, m_mutex, m_cond, curCall, message, cout,
                    bridge, crashed, inHist, schedHist, dispHist, iter, sent,
                    writing, notifying >>

\* Lines 224 and 232: _l.lock().
runRelock ==
    /\ ~crashed
    /\ pc \in {"relockCall", "relockMsg"}
    /\ m_mutex = "free"
    /\ m_mutex' = "loop"
    /\ pc' = IF pc = "relockCall" THEN "msg" ELSE "top"
    /\ UNCHANGED << msgMap, m_messagesIn, m_AsyncCalls, m_needsToExit,
                    m_pluginLoader, m_cond, curCall, message, cout, bridge,
                    invoked, crashed, inHist, schedHist, dispHist, iter,
                    lastIter, sent, writing, notifying >>

\* The queues after lines 227-228: `message = m_messagesIn.front()` and then
\* `m_AsyncCalls.pop_front()`.
popAfterFront(messagesIn, asyncCalls) ==
    [messagesIn |-> messagesIn,
     asyncCalls |-> IF Len(asyncCalls) > 0 THEN Tail(asyncCalls) ELSE asyncCalls,
     undefined |-> Len(asyncCalls) = 0]

\* Lines 226-230: read the head of the inbound queue, pop, release the lock.
\* pop_front on an empty deque either stops the process or leaves the deque
\* empty.
runMsg ==
    /\ ~crashed
    /\ pc = "msg"
    /\ IF Len(m_messagesIn) > 0
       THEN LET q == popAfterFront(m_messagesIn, m_AsyncCalls) IN
            \E ub \in (IF q.undefined THEN {"crash", "skip"} ELSE {"none"}) :
            /\ message' = Head(m_messagesIn)
            /\ m_messagesIn' = q.messagesIn
            /\ m_AsyncCalls' = q.asyncCalls
            /\ crashed' = (ub = "crash")
            /\ m_mutex' = unlock(m_mutex)
            /\ pc' = "inDispatch"
            /\ lastIter' = [lastIter EXCEPT
                              !.hadMsg = TRUE,
                              !.undefined = q.undefined,
                              !.msgPopped = @ + Len(m_messagesIn) - Len(q.messagesIn),
                              !.asyncPopped = @ + Len(m_AsyncCalls) - Len(q.asyncCalls)]
       ELSE /\ pc' = "top"
            /\ UNCHANGED << message, m_messagesIn, m_AsyncCalls, crashed, m_mutex,
                            lastIter >>
    /\ UNCHANGED << msgMap, m_needsToExit, m_pluginLoader, m_cond, curCall, cout,
                    bridge, invoked, inHist, schedHist, dispHist, iter, sent,
                    writing, notifying >>

\* Line 231: processBrowserMessage(message), with the lock released.
runDispatch ==
    /\ ~crashed
    /\ pc = "inDispatch"
    /\ processBrowserMessage(message)
    /\ dispHist' = Append(dispHist, message)
    /\ lastIter' = [lastIter EXCEPT !.msgDispatched = @ + 1]
    /\ pc' = "relockMsg"
    /\ UNCHANGED << msgMap, m_messagesIn, m_AsyncCalls, m_needsToExit, m_mutex,
                    m_cond, curCall, message, invoked, inHist, schedHist, iter,
                    sent, writing, notifying >>

----------------------------------------------------------------------------
(* Inputs.                                                                 *)

CreateDoc(mimetype) ==
    Serialize(JObj([cmd |-> JStr(<<"create">>), mimetype |-> JStr(mimetype)]))

\* A chunk as a peer writes it by hand: no type, no colonyId.
ChunkDoc(cmdId, c, n, msg) ==
    Serialize(JObj([cmdId |-> JInt(cmdId), c |-> JInt(c), n |-> JInt(n),
                    msg |-> JStr(msg)]))

\* A chunk with every member, as sendCommand writes it.
FullChunkDoc(colonyId, cmdId, c, n, type, msg) ==
    Serialize(JObj([c |-> JInt(c), type |-> JStr(type),
                    colonyId |-> JInt(colonyId), cmdId |-> JInt(cmdId),
                    n |-> JInt(n), msg |-> JStr(msg)]))

GarbageDoc == [kind |-> "garbage"]
NotObjectDoc == Serialize(JInt(7))
EmptyObjectDoc == Serialize(JObj(EmptyRec))
BogusCmdDoc == Serialize(JObj([cmd |-> JStr(<<"bogus">>)]))
CreateNoMimeDoc == Serialize(JObj([cmd |-> JStr(<<"create">>)]))
NoCountDoc == Serialize(JObj([cmdId |-> JInt(1), msg |-> JStr(<<"a">>)]))
BadCountDoc ==
    Serialize(JObj([c |-> JStr(<<"x">>), cmdId |-> JInt(1), msg |-> JStr(<<"a">>)]))
NoCmdIdDoc == Serialize(JObj([c |-> JInt(1), msg |-> JStr(<<"a">>)]))
BadCmdIdDoc ==
    Serialize(JObj([c |-> JInt(1), cmdId |-> JStr(<<"x">>), msg |-> JStr(<<"a">>)]))
NoSeqDoc ==
    Serialize(JObj([c |-> JInt(2), cmdId |-> JInt(1), msg |-> JStr(<<"a">>)]))
BadSeqDoc ==
    Serialize(JObj([c |-> JInt(2), cmdId |-> JInt(1), n |-> JStr(<<"x">>),
                    msg |-> JStr(<<"a">>)]))

\* The payloads that are malformed whatever was received before them.
MalformedDocs ==
    { GarbageDoc, NotObjectDoc, EmptyObjectDoc, BogusCmdDoc, CreateNoMimeDoc,
      NoCountDoc, BadCountDoc, NoCmdIdDoc, BadCmdIdDoc, NoSeqDoc, BadSeqDoc }

\* Well-formed chunks: message ids and chunk counts 1..MaxId, n within 1..c.
ChunkDocs ==
    UNION { { ChunkDoc(id, c, n, <<"a">>) : n \in 1..c } :
            id \in 1..MaxId, c \in 1..MaxId }

\* Chunks at the edges of the fragment vector: chunk count 0, sequence
\* number 0, sequence number above the chunk count, message id 0.
EdgeChunkDocs ==
    { ChunkDoc(1, 0, 1, <<"a">>),
      ChunkDoc(MaxId, MaxId, 0, <<"a">>),
      ChunkDoc(MaxId, MaxId, MaxId + 1, <<"a">>),
      ChunkDoc(0, 1, 1, <<"a">>) }

ParseDocs ==
    MalformedDocs \cup ChunkDocs \cup EdgeChunkDocs \cup { CreateDoc(<<"A">>) }

\* The payloads given to the running loop.
LoopDocs ==
    { CreateDoc(<<"A">>), GarbageDoc,
      FullChunkDoc(1, 1, 1, 1, <<"resp">>, <<"b">>) }

\* The messageInfo that messageIn builds from a payload, first in the table.
Parsed(command) ==
    LET r == parseIncomingMessage(EmptyRec, command) IN
    IF r.thrown THEN messageInfo_type_msg("ERROR", r.what) ELSE r.info

\* The complete messages given to the dispatcher.
DispatchDocs ==
    { CreateDoc(<<"A">>), GarbageDoc,
      FullChunkDoc(1, 1, 1, 1, <<"cmd">>, <<"a">>),
      FullChunkDoc(1, 1, 1, 1, <<"resp">>, <<"b", "a", "b">>) }

\* The sendCommand calls of the round trip.
SendArgs ==
    [colonyId : {0, 1}, cmdId : 0..MaxId,
     payload : Strings(2 * maxCommandSize + 1),
     type : {<<"cmd">>, <<"resp">>},
     done : {FALSE}]

NoSend == [colonyId |-> 0, cmdId |-> 0, payload |-> << >>, type |-> << >>,
           done |-> FALSE]

----------------------------------------------------------------------------
(* Specifications.                                                         *)

\* The threads that write to std::cout: the consumer thread through
\* writeObj, a plugin thread through doCommand and doCommandCallback.
Writers == {"loop", "plugin"}

\* No thread is inside writeMessage.
Idle == [t \in Writers |-> << >>]

InitWith(s) ==
    /\ msgMap = EmptyRec
    /\ m_messagesIn = << >>
    /\ m_AsyncCalls = << >>
    /\ m_needsToExit = FALSE
    /\ m_pluginLoader = NoPlugin
    /\ m_mutex = "free"
    /\ m_cond = FALSE
    /\ pc = "start"
    /\ curCall = 0
    /\ message = messageInfo_default
    /\ cout = << >>
    /\ bridge = << >>
    /\ invoked = << >>
    /\ crashed = FALSE
    /\ inHist = << >>
    /\ schedHist = << >>
    /\ dispHist = << >>
    /\ iter = 0
    /\ lastIter = NoIter
    /\ sent = s
    /\ writing = Idle
    /\ notifying = 0

Init == InitWith(NoSend)

\* The reader thread gives one payload to messageIn.
deliver == \E d \in LoopDocs : Len(inHist) < MaxLoopIn /\ messageIn(d)

\* A plugin thread schedules the next async call.
schedule == Len(schedHist) < MaxCalls /\ scheduleCall(Len(schedHist) + 1)

Next ==
    \/ deliver
    \/ schedule
    \/ requestExit
    \/ runStart
    \/ runTop
    \/ runWake
    \/ runAsync
    \/ runCall
    \/ runRelock
    \/ runMsg
    \/ runDispatch

\* The whole host: producers and the dispatch loop.
Spec == Init /\ [][Next]_vars

\* The reader thread alone: payloads given to messageIn one after another.
parseDeliver == \E d \in ParseDocs : Len(inHist) < MaxIn /\ messageIn(d)

SpecParse == Init /\ [][parseDeliver]_vars

\* The dispatcher alone: processBrowserMessage applied to complete messages.
harnessDispatch ==
    \E d \in DispatchDocs :
        /\ ~crashed
        /\ Len(dispHist) < MaxDispatch
        /\ processBrowserMessage(Parsed(d))
        /\ dispHist' = Append(dispHist, Parsed(d))
        /\ UNCHANGED << msgMap, m_messagesIn, m_AsyncCalls, m_needsToExit,
                        m_mutex, m_cond, pc, curCall, message, invoked, inHist,
                        schedHist, iter, lastIter, sent, writing, notifying >>

SpecDispatch == Init /\ [][harnessDispatch]_vars

\* The round trip: one sendCommand call, then its frames given to messageIn
\* in any order, each once.
InitRoundTrip == \E s \in SendArgs : InitWith(s)

rtSend ==
    /\ ~sent.done
    /\ cout' = cout \o writeAll(sendCommand(sent.colonyId, sent.cmdId,
                                            sent.payload, Len(sent.payload),
                                            sent.type))
    /\ sent' = [sent EXCEPT !.done = TRUE]
    /\ UNCHANGED << msgMap, m_messagesIn, m_AsyncCalls, m_needsToExit,
                    m_pluginLoader, m_mutex, m_cond, pc, curCall, message,
                    bridge, invoked, crashed, inHist, schedHist, dispHist, iter,
                    lastIter, writing, notifying >>

rtDeliver ==
    \E k \in 1..Len(Frames(cout)) :
        /\ \A j \in 1..Len(inHist) : inHist[j].doc # Frames(cout)[k]
        /\ messageIn(Frames(cout)[k])

SpecRoundTrip == InitRoundTrip /\ [][rtSend \/ rtDeliver]_vars

\* The acknowledgments the consumer thread writes while a plugin thread is
\* sending.
AckMaps ==
    { [status |-> <<"error">>, message |-> <<"Unknown message">>],
      [status |-> <<"success">>, plugin |-> getPluginName(<<"A">>)] }

\* The payloads a plugin thread sends: none, one or two chunks.
WriterPayloads == Strings(maxCommandSize + 1)

\* What is on std::cout or on its way there.
StreamLoad == Len(cout) + Len(writing["loop"]) + Len(writing["plugin"])

\* The consumer thread enters writeObj(outMap): MainLoop.cpp:240-248 up to
\* the insertions of writeMessage.  No lock is taken.
writeObjBegin ==
    \E outMap \in AckMaps :
        /\ writing["loop"] = << >>
        /\ StreamLoad + Len(writeObj(outMap)) <= MaxStream
        /\ writing' = [writing EXCEPT !["loop"] = writeObj(outMap)]
        /\ UNCHANGED << msgMap, m_messagesIn, m_AsyncCalls, m_needsToExit,
                        m_pluginLoader, m_mutex, m_cond, pc, curCall, message,
                        cout, bridge, invoked, crashed, inHist, schedHist,
                        dispHist, iter, lastIter, sent, notifying >>

\* A plugin thread enters doCommand or doCommandCallback: sendCommand up to
\* the insertions of its writeMessage calls.  No lock is taken.
sendCommandBegin ==
    \E payload \in WriterPayloads, type \in {<<"cmd">>, <<"resp">>} :
        LET texts == sendCommand(1, 1, payload, Len(payload), type) IN
        /\ writing["plugin"] = << >>
        /\ StreamLoad + Len(writeAll(texts)) <= MaxStream
        /\ writing' = [writing EXCEPT !["plugin"] = writeAll(texts)]
        /\ UNCHANGED << msgMap, m_messagesIn, m_AsyncCalls, m_needsToExit,
                        m_pluginLoader, m_mutex, m_cond, pc, curCall, message,
                        cout, bridge, invoked, crashed, inHist, schedHist,
                        dispHist, iter, lastIter, sent, notifying >>

\* One insertion into std::cout by thread t inside writeMessage
\* (MainLoop.h:95-99); the four characters of the length are taken as one
\* insertion.
insert(t) ==
    /\ writing[t] # << >>
    /\ cout' = Append(cout, Head(writing[t]))
    /\ writing' = [writing EXCEPT ![t] = Tail(writing[t])]
    /\ UNCHANGED << msgMap, m_messagesIn, m_AsyncCalls, m_needsToExit,
                    m_pluginLoader, m_mutex, m_cond, pc, curCall, message,
                    bridge, invoked, crashed, inHist, schedHist, dispHist, iter,
                    lastIter, sent, notifying >>

insertLoop == insert("loop")
insertPlugin == insert("plugin")

\* The writers alone: the consumer thread acknowledging while a plugin
\* thread sends.
SpecWrite ==
    Init /\ [][writeObjBegin \/ sendCommandBegin \/ insertLoop \/ insertPlugin]_vars

----------------------------------------------------------------------------
(* The wait and the notifications, step by step: the producers' enqueue    *)
(* and notify_all as two steps, the consumer's predicate check and wait as *)
(* two steps.                                                              *)

\* scheduleCall up to its _l.unlock() (MainLoop.h:87-89).
scheduleCallEnqueue(call) ==
    /\ ~crashed
    /\ m_mutex = "free"
    /\ m_AsyncCalls' = Append(m_AsyncCalls, call)
    /\ schedHist' = Append(schedHist, [call |-> call, at |-> iter,
                                       pos |-> Len(m_AsyncCalls) + 1])
    /\ notifying' = notifying + 1
    /\ UNCHANGED << msgMap, m_messagesIn, m_needsToExit, m_pluginLoader,
                    m_mutex, m_cond, pc, curCall, message, cout, bridge,
                    invoked, crashed, inHist, dispHist, iter, lastIter, sent,
                    writing >>

\* messageIn up to its _l.unlock() (MainLoop.cpp:132-144).
messageInEnqueue(command) ==
    LET r == parseIncomingMessage(msgMap, command) IN
    \E w \in (IF r.thrown THEN what(r.what) ELSE {<< >>}) :
    \E ub \in (IF r.oob THEN {"crash", "skip"} ELSE {"none"}) :
    LET processedMsg == IF r.thrown
                        THEN messageInfo_type_msg("ERROR", w)
                        ELSE r.info
    IN  \E complete \in (IF ub = "crash" THEN {FALSE} ELSE isComplete(processedMsg)) :
        /\ ~crashed
        /\ complete => m_mutex = "free"
        /\ msgMap' = r.map
        /\ crashed' = (ub = "crash")
        /\ m_messagesIn' = IF complete THEN Append(m_messagesIn, processedMsg)
                                       ELSE m_messagesIn
        /\ notifying' = IF complete THEN notifying + 1 ELSE notifying
        /\ inHist' = Append(inHist, [doc |-> command,
                                     thrown |-> r.thrown,
                                     info |-> processedMsg,
                                     queued |-> complete,
                                     ub |-> ub])
        /\ UNCHANGED << m_AsyncCalls, m_needsToExit, m_pluginLoader, m_mutex,
                        m_cond, pc, curCall, message, cout, bridge, invoked,
                        schedHist, dispHist, iter, lastIter, sent, writing >>

\* m_cond.notify_all() of a producer that has unlocked (MainLoop.h:90,
\* MainLoop.cpp:145).
producerNotify ==
    /\ ~crashed
    /\ notifying > 0
    /\ notifying' = notifying - 1
    /\ m_cond' = notify_all
    /\ UNCHANGED << msgMap, m_messagesIn, m_AsyncCalls, m_needsToExit,
                    m_pluginLoader, m_mutex, pc, curCall, message, cout,
                    bridge, invoked, crashed, inHist, schedHist, dispHist,
                    iter, lastIter, sent, writing >>

\* Lines 203-205: the loop test and the predicate check, the lock held.
runCheck ==
    /\ ~crashed
    /\ pc = "top"
    /\ m_needsToExit \/ iter < MaxIter
    /\ IF m_needsToExit
       THEN /\ pc' = "done"
            /\ m_mutex' = "free"
            /\ UNCHANGED << iter, lastIter >>
       ELSE /\ pc' = IF ~workExists THEN "toWait" ELSE "async"
            /\ iter' = iter + 1
            /\ lastIter' = NoIter
            /\ UNCHANGED m_mutex
    /\ UNCHANGED << msgMap, m_messagesIn, m_AsyncCalls, m_needsToExit,
                    m_pluginLoader, m_cond, curCall, message, cout, bridge,
                    invoked, crashed, inHist, schedHist, dispHist, sent,
                    writing, notifying >>

\* Line 206: m_cond.wait releases the lock and blocks; a notify_all made
\* before this step reaches nobody.
runWait ==
    /\ ~crashed
    /\ pc = "toWait"
    /\ pc' = "waiting"
    /\ m_mutex' = "free"
    /\ m_cond' = FALSE
    /\ UNCHANGED << msgMap, m_messagesIn, m_AsyncCalls, m_needsToExit,
                    m_pluginLoader, curCall, message, cout, bridge, invoked,
                    crashed, inHist, schedHist, dispHist, iter, lastIter,
                    sent, writing, notifying >>

\* The payload given to the host in the runs of the wait.
WakeDoc == FullChunkDoc(1, 1, 1, 1, <<"resp">>, <<"b">>)

wakeDeliver ==
    Len(inHist) + Len(schedHist) < MaxWakeOps /\ messageInEnqueue(WakeDoc)

wakeSchedule ==
    /\ Len(inHist) + Len(schedHist) < MaxWakeOps
    /\ scheduleCallEnqueue(Len(schedHist) + 1)

NextWake ==
    \/ wakeDeliver
    \/ wakeSchedule
    \/ producerNotify
    \/ requestExit
    \/ runStart
    \/ runCheck
    \/ runWait
    \/ runWake
    \/ runAsync
    \/ runCall
    \/ runRelock
    \/ runMsg
    \/ runDispatch

\* The whole host with the producers and the wait taken step by step.  A
\* producer that has unlocked goes on to its notify_all, a notified consumer
\* wakes, and the consumer thread goes on through its iteration.
SpecWake ==
    /\ Init
    /\ [][NextWake]_vars
    /\ WF_vars(producerNotify)
    /\ WF_vars(runWake)
    /\ WF_vars(runAsync)
    /\ WF_vars(runMsg)

----------------------------------------------------------------------------
(* Vocabulary of the properties.                                           *)

Last(seq) == seq[Len(seq)]

\* A payload that is a chunk by its own content: a record without cmd, with
\* msg, integral c >= 1 and cmdId, and an integral n in 1..c when c > 1.
WellFormedChunk(d) ==
    /\ d.kind = "json"
    /\ d.root.t = "obj"
    /\ "cmd" \notin DOMAIN d.root.o
    /\ {"msg", "c", "cmdId"} \subseteq DOMAIN d.root.o
    /\ d.root.o["c"].t = "int"
    /\ d.root.o["cmdId"].t = "int"
    /\ d.root.o["c"].i >= 1
    /\ d.root.o["c"].i > 1 =>
          /\ "n" \in DOMAIN d.root.o
          /\ d.root.o["n"].t = "int"
          /\ d.root.o["n"].i \in 1..d.root.o["c"].i

DocCmdId(d) == d.root.o["cmdId"].i
DocCount(d) == d.root.o["c"].i
DocSeq(d) == IF DocCount(d) > 1 THEN d.root.o["n"].i ELSE 1
DocMsg(d) == d.root.o["msg"].s

\* The chunk deliveries among the first j messageIn calls that carry id.
ChunksOf(j, id) ==
    { i \in 1..j : WellFormedChunk(inHist[i].doc) /\ DocCmdId(inHist[i].doc) = id }

\* The distinct sequence numbers received for id in the first j calls.
SeenSeqs(j, id) == { DocSeq(inHist[i].doc) : i \in ChunksOf(j, id) }

----------------------------------------------------------------------------
(* Properties of the round trip (SpecRoundTrip).                           *)

\* sendCommand returned and each of its frames was given to messageIn.
AllDelivered ==
    /\ sent.done
    /\ \A k \in 1..Len(Frames(cout)) :
          \E j \in 1..Len(inHist) : inHist[j].doc = Frames(cout)[k]

\* C1: chunk round trip.  When every frame that sendCommand wrote for
\* (colonyId, cmdId, payload) has been given to messageIn, in whatever
\* order, the inbound queue holds exactly one message; its reassembled
\* string is the payload and its colonyId and message id are the ones sent.
\* (Stated for the payloads that give at least one chunk: the empty payload
\* gives no frame at all; and for the runs in which no delivery wrote
\* outside the fragment vector.)
C1_RoundTrip ==
    (/\ AllDelivered
     /\ Len(sent.payload) > 0
     /\ \A j \in 1..Len(inHist) : inHist[j].ub = "none") =>
        /\ Len(m_messagesIn) = 1
        /\ getString(m_messagesIn[1]) = sent.payload
        /\ m_messagesIn[1].colonyId = sent.colonyId
        /\ m_messagesIn[1].msgId = sent.cmdId

\* ceil(len / ceiling), stated without countChunks: the least k with
\* k * ceiling >= len.
CeilDiv(len, ceiling) ==
    CHOOSE k \in 0..len : k * ceiling >= len /\ (k = 0 \/ (k - 1) * ceiling < len)

\* The frame the claim expects as number n of count for the call in `sent`.
ExpectedFrame(n, count) ==
    Serialize(JObj([c |-> JInt(count),
                    type |-> JStr(sent.type),
                    colonyId |-> JInt(sent.colonyId),
                    cmdId |-> JInt(sent.cmdId),
                    n |-> JInt(n),
                    msg |-> JStr(SubSeq(sent.payload,
                                        (n - 1) * maxCommandSize + 1,
                                        Min(Len(sent.payload), n * maxCommandSize)))]))

----------------------------------------------------------------------------
(* Properties of the parser and the reassembler (SpecParse).               *)

\* Delivery i was accepted as a chunk: messageIn built no Error message
\* from it and nothing undefined happened.
Accepted(i) ==
    /\ WellFormedChunk(inHist[i].doc)
    /\ ~inHist[i].thrown
    /\ inHist[i].ub = "none"

\* Delivery j declares a chunk count other than the one an earlier accepted
\* chunk of the same message id declared.
CountMismatch(j) ==
    /\ WellFormedChunk(inHist[j].doc)
    /\ \E i \in 1..(j - 1) :
          /\ Accepted(i)
          /\ DocCmdId(inHist[i].doc) = DocCmdId(inHist[j].doc)
          /\ DocCount(inHist[i].doc) # DocCount(inHist[j].doc)

\* C2: sequence-size invariant.  Once a chunk with message id cmdId and
\* chunk count k has been accepted, every later chunk with the same cmdId
\* and another chunk count yields an Error-kind message; it is never
\* accepted as a fragment.
C2_SequenceSize ==
    \A j \in 1..Len(inHist) :
        CountMismatch(j) =>
            /\ inHist[j].thrown
            /\ inHist[j].info.type = "ERROR"

\* Every chunk among the first j deliveries that carries the message id of
\* delivery j declares the chunk count of delivery j.
SameCount(j) ==
    \A i \in ChunksOf(j, DocCmdId(inHist[j].doc)) :
        DocCount(inHist[i].doc) = DocCount(inHist[j].doc)

\* C3: completeness.  A message declared with c chunks is placed in the
\* inbound queue exactly by the delivery that makes the set of distinct
\* sequence numbers received equal to 1..c: not earlier, not later.
C3_Completeness ==
    \A j \in 1..Len(inHist) :
        (/\ WellFormedChunk(inHist[j].doc)
         /\ SameCount(j)
         /\ \A i \in 1..j : inHist[i].ub = "none") =>
            LET id == DocCmdId(inHist[j].doc)
                all == 1..DocCount(inHist[j].doc)
            IN  inHist[j].queued <=>
                    (SeenSeqs(j, id) = all /\ SeenSeqs(j - 1, id) # all)

\* C7: every payload that fails to parse becomes an Error-kind message that
\* is complete at once: exactly one Error-kind message is appended to the
\* inbound queue for it.
C7_ParseErrorQueued ==
    \A j \in 1..Len(inHist) :
        (inHist[j].doc \in MalformedDocs \/ CountMismatch(j)) =>
            /\ inHist[j].info.type = "ERROR"
            /\ inHist[j].queued

\* C8: a well-formed create payload becomes a Create-kind message with
\* declared chunk count 1 that is complete at once: the same messageIn call
\* appends it to the inbound queue.
C8_CreateQueued ==
    \A j \in 1..Len(inHist) :
        inHist[j].doc = CreateDoc(<<"A">>) =>
            /\ inHist[j].info.type = "CREATE"
            /\ inHist[j].info.msgs = << <<"A">> >>
            /\ ~inHist[j].info.indet
            /\ inHist[j].info.c = 1
            /\ inHist[j].queued

----------------------------------------------------------------------------
(* Properties of the dispatcher (SpecDispatch).                            *)

CreateA == Parsed(CreateDoc(<<"A">>))
CommandP1 == Parsed(FullChunkDoc(1, 1, 1, 1, <<"cmd">>, <<"a">>))
ResponseP2 == Parsed(FullChunkDoc(1, 1, 1, 1, <<"resp">>, <<"b", "a", "b">>))

SuccessAck(name) ==
    Serialize(JObj([status |-> JStr(<<"success">>), plugin |-> JStr(name)]))
ErrorAck(text) ==
    Serialize(JObj([status |-> JStr(<<"error">>), message |-> JStr(text)]))

\* The calls into the plugin's entry points among the calls recorded.
PluginCalls == SelectSeq(bridge, LAMBDA e : e.fn \in {"call", "cmdCallback"})

\* No call into the plugin loader has failed.
LoaderWorked == \A k \in 1..Len(bridge) : bridge[k].ok

PluginCall(fn, msg) ==
    [fn |-> fn, arg |-> << msg.colonyId, msg.msgId, getString(msg) >>, ok |-> TRUE]

\* C5: dispatch determinism.  From no active plugin, dispatching
\* Create(A), Command(P1), Response(P2) in this order gives, in this order,
\* a success acknowledgment with the name of A's plugin, one call of the
\* plugin's inbound-call entry point with (colonyId, messageId, P1) and one
\* call of its callback entry point with (colonyId, messageId, P2), and
\* nothing else (the loader being assumed not to fail).
C5_DispatchDeterminism ==
    LoaderWorked =>
        /\ dispHist = << CreateA >> =>
              /\ Frames(cout) = << SuccessAck(getPluginName(<<"A">>)) >>
              /\ PluginCalls = << >>
        /\ dispHist = << CreateA, CommandP1 >> =>
              /\ Frames(cout) = << SuccessAck(getPluginName(<<"A">>)) >>
              /\ PluginCalls = << PluginCall("call", CommandP1) >>
        /\ dispHist = << CreateA, CommandP1, ResponseP2 >> =>
              /\ Frames(cout) = << SuccessAck(getPluginName(<<"A">>)) >>
              /\ PluginCalls = << PluginCall("call", CommandP1),
                                  PluginCall("cmdCallback", ResponseP2) >>

\* C9: whatever the state of the bridge, dispatching an Error-kind message
\* writes exactly one failure acknowledgment (status error, message the
\* error text), calls neither the loader nor the plugin, and leaves the
\* active plugin instance as it was.
C9_ErrorDispatch ==
    [][(Len(dispHist') = Len(dispHist) + 1 /\ Last(dispHist').type = "ERROR") =>
          /\ cout' = cout \o writeMessage(ErrorAck(Last(dispHist').msgs[1]))
          /\ bridge' = bridge
          /\ m_pluginLoader' = m_pluginLoader
          /\ crashed' = crashed]_vars

\* C9 witness: with a plugin loaded and initialized, an Error-kind message
\* was dispatched and its failure acknowledgment is the last frame written.
C9_Witness ==
    /\ Len(dispHist) >= 2
    /\ Last(dispHist).type = "ERROR"
    /\ m_pluginLoader.loaded
    /\ m_pluginLoader.initialized
    /\ Last(Frames(cout)) = ErrorAck(Last(dispHist).msgs[1])

----------------------------------------------------------------------------
(* Properties of the dispatch loop (Spec).                                 *)

\* Iteration i of the loop is past lines 215-225, its async call stage.
PastAsyncStage(i) ==
    iter > i \/ (iter = i /\ pc \notin {"waiting", "async", "inCall"})

\* C4: fairness of the loop.  While exit is not requested, an iteration
\* that finds the inbound queue non-empty dispatches its head, however many
\* async calls are queued; and an async call queued at position p has been
\* invoked once p further iterations are past their async call stage,
\* however many inbound messages are queued.
C4_Fairness ==
    /\ (pc = "top" /\ lastIter.hadMsg) => lastIter.msgDispatched = 1
    /\ \A k \in 1..Len(schedHist) :
          (~m_needsToExit /\ PastAsyncStage(schedHist[k].at + schedHist[k].pos)) =>
              \E i \in 1..Len(invoked) : invoked[i] = schedHist[k].call

\* C10: one iteration removes and invokes at most one async call and
\* removes and dispatches at most one inbound message, and what it removes
\* from a queue is what it runs: calls removed = calls invoked, messages
\* removed = messages dispatched.  (The last part is stated for the
\* iterations in which no pop_front met an empty deque.)
C10_OnePerIteration ==
    /\ lastIter.asyncPopped <= 1
    /\ lastIter.asyncInvoked <= 1
    /\ lastIter.msgPopped <= 1
    /\ lastIter.msgDispatched <= 1
    /\ (pc = "top" /\ ~crashed /\ ~lastIter.undefined) =>
          /\ lastIter.asyncInvoked = lastIter.asyncPopped
          /\ lastIter.msgDispatched = lastIter.msgPopped

\* Call number cl is on the async queue, is the call being run, or has run.
Accounted(cl) ==
    \/ \E i \in 1..Len(m_AsyncCalls) : m_AsyncCalls[i] = cl
    \/ (pc = "inCall" /\ curCall = cl)
    \/ \E i \in 1..Len(invoked) : invoked[i] = cl

\* C11: every async call enqueued by scheduleCall is executed exactly once
\* by the loop: it is never off the queue without being the call in
\* progress or an invoked one, it is never invoked twice, and the calls are
\* invoked in the order in which they were enqueued.
C11_ExactlyOnce ==
    /\ \A k \in 1..Len(schedHist) : Accounted(schedHist[k].call)
    /\ \A i, j \in 1..Len(invoked) : i < j => invoked[i] < invoked[j]

\* C12: the loop never holds the mutex while an async call's callback or
\* processBrowserMessage is running, and holds it again once it is back in
\* its own code; so scheduleCall and messageIn, which need the mutex, can
\* be called from inside a callback.
C12_LockReleased ==
    /\ pc \in {"inCall", "inDispatch"} => m_mutex = "free"
    /\ pc \in {"top", "async", "msg"} => m_mutex = "loop"

\* C12 witness: while call 1 was running, scheduleCall took the mutex and
\* queued call 2 on the queue that call 1 had left empty.
C12_Witness ==
    /\ pc = "inCall"
    /\ curCall = 1
    /\ m_mutex = "free"
    /\ Len(schedHist) = 2
    /\ schedHist[2].pos = 1
    /\ m_AsyncCalls = << 2 >>

\* C13: when the loop tests its condition or comes out of the wait with
\* exit requested, run returns: it invokes no further async call, dispatches
\* no further message and leaves both queues as they are; and run returns
\* only with exit requested, and does nothing once it has returned.
C13_ExitOnly ==
    [][/\ (pc \in {"top", "waiting"} /\ m_needsToExit /\ pc' # pc) =>
              /\ pc' = "done"
              /\ UNCHANGED << m_messagesIn, m_AsyncCalls, invoked, dispHist, cout >>
       /\ pc' = "done" => m_needsToExit'
       /\ pc = "done" =>
              /\ pc' = "done"
              /\ UNCHANGED << invoked, dispHist, cout >>]_vars

\* C13 witness: run has returned on the exit request with a message and an
\* async call still queued, after having dispatched a parse error.
C13_Witness ==
    /\ pc = "done"
    /\ m_needsToExit
    /\ Len(m_messagesIn) > 0
    /\ Len(m_AsyncCalls) > 0
    /\ \E k \in 1..Len(dispHist) : dispHist[k].type = "ERROR"

----------------------------------------------------------------------------
(* Properties of the concurrent writers (SpecWrite).                       *)

\* C14: outbound writes are serialized.  With the consumer thread and a
\* plugin thread writing at the same time, every length prefix on the
\* stream is followed at once by the text it counts, and every text follows
\* its own length prefix: no part of another frame comes between them.
C14_WritesSerialized ==
    \A k \in 1..Len(cout) :
        /\ cout[k].seg = "size" =>
              (k = Len(cout) \/ cout[k + 1] = [seg |-> "text", of |-> cout[k].of])
        /\ cout[k].seg = "text" =>
              (k > 1 /\ cout[k - 1] = [seg |-> "size", of |-> cout[k].of])

\* The last delivery that carries message id `id`.
LastOf(id) ==
    CHOOSE i \in ChunksOf(Len(inHist), id) :
        \A j \in ChunksOf(Len(inHist), id) : j <= i

\* Message id `id` is pending: chunks of it were delivered, and the last of
\* them neither completed the message nor failed with an error.
Pending(id) ==
    /\ ChunksOf(Len(inHist), id) # {}
    /\ ~inHist[LastOf(id)].queued
    /\ ~inHist[LastOf(id)].thrown

\* C19: pending-table cleanup.  The table has entries only for the message
\* ids that are pending: once a message was completed and queued, and once
\* a chunk of it has failed with an error, its id has no entry (a later
\* message with that id starts from nothing), and the table is never larger
\* than the number of messages in flight.
C19_TableCleanup ==
    \A k \in DOMAIN msgMap : Pending(k)

\* C20: fragment index bounds.  Whatever chunk count, sequence number and
\* message id a chunk carries (chunk count 0, sequence number 0 or above
\* the chunk count included), a chunk that parseWyrmholeMessage accepts has
\* its fragment written inside the entry's fragment vector; a chunk whose
\* slot would be outside is rejected as an error, and nothing is written
\* outside the vector.
C20_IndexInBounds ==
    \A j \in 1..Len(inHist) :
        ~inHist[j].thrown => inHist[j].ub = "none"

----------------------------------------------------------------------------
(* Create and the loader (SpecDispatch).                                   *)

\* The calls into the loader made by the step.
NewBridge == SubSeq(bridge', Len(bridge) + 1, Len(bridge'))

\* The bridge has an active plugin instance: loaded and initialized.
Active(loader) == loader.loaded /\ loader.initialized

\* C15: dispatching a Create message asks the loader for the module of the
\* mimetype.  If loading or initialization fails, exactly one failure
\* acknowledgment is written and the bridge has no active instance; if both
\* succeed (also after an earlier failure), the success acknowledgment with
\* the plugin's name is written and the bridge has an active instance.
C15_CreateFailure ==
    [][(Len(dispHist') = Len(dispHist) + 1 /\ Last(dispHist').type = "CREATE") =>
          /\ Len(NewBridge) > 0
          /\ NewBridge[1] =
                [fn |-> "LoadPlugin", arg |-> Last(dispHist').msgs[1],
                 ok |-> NewBridge[1].ok]
          /\ IF \E k \in 1..Len(NewBridge) : ~NewBridge[k].ok
             THEN /\ \E w \in what(<<"plugin error">>) :
                        cout' = cout \o writeMessage(ErrorAck(w))
                  /\ ~Active(m_pluginLoader')
             ELSE /\ cout' = cout \o writeMessage(
                        SuccessAck(getPluginName(Last(dispHist').msgs[1])))
                  /\ Active(m_pluginLoader')]_vars

----------------------------------------------------------------------------
(* The queues and the wait (Spec).                                         *)

\* C16: the message the loop takes for dispatch is the head of the inbound
\* queue, and taking it removes it: after the step the queue is its former
\* tail, so that each queued message is dispatched once, in FIFO order, and
\* the queue runs empty.  (Stated for the steps in which no pop_front met
\* an empty deque.)
C16_RemovedOnDispatch ==
    [][(pc = "msg" /\ pc' = "inDispatch" /\ ~lastIter'.undefined) =>
          /\ message' = Head(m_messagesIn)
          /\ m_messagesIn' = Tail(m_messagesIn)]_vars

----------------------------------------------------------------------------
(* The pending-message table (SpecParse).                                  *)

\* The accepted chunk deliveries that carry message id `id`.
AcceptedOf(id) == { i \in ChunksOf(Len(inHist), id) : Accepted(i) }

\* Message id `id` is in flight: chunks of it were accepted, all deliveries
\* for it declare one chunk count, and not every sequence number has come.
InFlight(id) ==
    /\ AcceptedOf(id) # {}
    /\ ChunksOf(Len(inHist), id) = AcceptedOf(id)
    /\ \A i, j \in AcceptedOf(id) : DocCount(inHist[i].doc) = DocCount(inHist[j].doc)
    /\ \E i \in AcceptedOf(id) :
          SeenSeqs(Len(inHist), id) # 1..DocCount(inHist[i].doc)

\* C17: pending-table keying.  For a message id in flight the table has an
\* entry under that id, with as many slots as the chunk count declared, that
\* count as its declared count and the id as its message id; every accepted
\* chunk's fragment is in its slot of the table entry, and the entry's
\* received count is the number of chunks accepted.
C17_TableKeying ==
    \A id \in 0..MaxId :
        InFlight(id) =>
            /\ id \in DOMAIN msgMap
            /\ \A i \in AcceptedOf(id) :
                  /\ Len(msgMap[id].msgs) = DocCount(inHist[i].doc)
                  /\ msgMap[id].c = DocCount(inHist[i].doc)
                  /\ msgMap[id].msgs[DocSeq(inHist[i].doc)] = DocMsg(inHist[i].doc)
            /\ msgMap[id].msgId = id
            /\ msgMap[id].curC = Cardinality(AcceptedOf(id))

----------------------------------------------------------------------------
(* The wait (SpecWake).                                                    *)

\* The consumer is blocked in the wait although exit is requested or a
\* queue is not empty.
BlockedOverWork ==
    /\ pc = "waiting"
    /\ m_needsToExit \/ Len(m_messagesIn) > 0 \/ Len(m_AsyncCalls) > 0

\* The consumer is out of the wait and at an item: it runs an async call or
\* dispatches a message; or run has returned on the exit request; or the
\* pop_front of line 228 has stopped the process.
AtAnItem ==
    \/ pc \in {"inCall", "inDispatch"}
    \/ pc = "done"
    \/ crashed

\* C18: no missed wakeup.  In every interleaving of the producers with the
\* consumer, the consumer is blocked in the wait with exit requested or a
\* queue non-empty only while the producer's notify_all is still to come or
\* has reached the consumer; and from there the consumer leaves the wait
\* and comes to an item.  In particular the consumer never enters the wait
\* over an item queued before its predicate check.
C18_NoMissedWakeup ==
    /\ [](BlockedOverWork => (m_cond \/ notifying > 0))
    /\ (BlockedOverWork ~> AtAnItem)

\* C18 witness: the consumer went into the wait in this iteration, a call
\* was scheduled and notified while it was blocked, and it has left the
\* wait with the lock and the call before it.
C18_Witness ==
    /\ pc = "async"
    /\ m_mutex = "loop"
    /\ Len(schedHist) > 0
    /\ Last(schedHist).at = iter
    /\ Len(m_AsyncCalls) > 0

=============================================================================
